---------------------------- MODULE Spec2Model ----------------------------
(***************************************************************************)
(* Model of the Oria WA150KM decoder, src/src/devices/oria_wa150km.c.      *)
(*                                                                         *)
(* A bitbuffer is a sequence of rows; a row is a record                    *)
(*   [bits |-> bits_per_row[r], bb |-> the sequence of the row's bytes].  *)
(* Sequences are numbered from 1: byte b[i] of the code is At(b, i).       *)
(* A float holding a temperature is the record                             *)
(*   [neg |-> sign bit, whole |-> integer part, frac |-> fraction in       *)
(*    units of 2^-27]                                                      *)
(* which is exact for every binary32 value of magnitude in [2^-4, 128).    *)
(***************************************************************************)
EXTENDS Integers, Sequences, FiniteSets, TLC

\* ------------------------------------------------------------------------
\* Program constants
\* ------------------------------------------------------------------------
ORIA_WA150KM_BITLEN == 227
WARMUP_LEN == 3
MAX_DEVICES == 32
\* MAX_TEMP_DELTA is 12.0f; its whole part (the fraction is zero)
MAX_TEMP_DELTA == 12
\* decoder.h: the sanity failure code, neither 0 nor 1
DECODE_FAIL_SANITY == 0 - 4
\* bytes of a row buffer that a 227 bit row touches (bits 0..227)
ROW_BYTES == 29
\* bytes of the Manchester output that can be written (114 bits)
OUT_BYTES == 15
\* units of the fraction of a float record: 2^-27
FRAC_ONE == 134217728

\* ------------------------------------------------------------------------
\* Bits and bytes
\* ------------------------------------------------------------------------
\* bit p (0 = most significant) of a byte
BitOf(byte, p) == (byte \div (2 ^ (7 - p))) % 2

\* b[i] of a byte buffer held as a sequence
At(b, i) == b[i + 1]

\* the byte buffer <<F(0), ..., F(n - 1)>>, as a sequence
Buffer(F(_), n) == [c \in 1..n |-> F(c - 1)] \o <<>>

\* the least element of a nonempty set of numbers
Min(S) == CHOOSE x \in S : \A y \in S : x <= y

\* bit i of a row buffer, as bitbuffer.c indexes it
RowBit(bb, i) == BitOf(At(bb, i \div 8), i % 8)

\* reflect_bytes: reverse the bit order of one byte
reflect_byte(byte) ==
    BitOf(byte, 0) + 2 * BitOf(byte, 1) + 4 * BitOf(byte, 2)
  + 8 * BitOf(byte, 3) + 16 * BitOf(byte, 4) + 32 * BitOf(byte, 5)
  + 64 * BitOf(byte, 6) + 128 * BitOf(byte, 7)

\* bitbuffer_invert on one row: the used bits are complemented, the unused
\* bits of the last used byte and the bytes after it are left alone
invert_row(row) ==
    LET last_col  == (row.bits - 1) \div 8
        last_bits == ((row.bits - 1) % 8) + 1
        unused    == (2 ^ (8 - last_bits)) - 1
    IN  IF row.bits = 0 THEN row
        ELSE [row EXCEPT !.bb =
                 Buffer(LAMBDA c :
                     IF c < last_col THEN 255 - At(row.bb, c)
                     ELSE IF c = last_col
                          THEN (255 - At(row.bb, c)) - unused
                               + 2 * (At(row.bb, c) % (unused + 1))
                          ELSE At(row.bb, c),
                     Len(row.bb))]

\* bitbuffer_invert: every row of the bitbuffer, in place
bitbuffer_invert(buf) ==
    [r \in 1..Len(buf) |-> invert_row(buf[r])] \o <<>>

\* bitbuffer_manchester_decode, the loop: the number of bits produced.
\* Pair k is read while 2 * k < len, and the first pair of equal bits ends
\* the decoding
manchester_count(bb, len) ==
    LET npairs == (len + 1) \div 2
        broken == {k \in 0..(npairs - 1) :
                      RowBit(bb, 2 * k) = RowBit(bb, 2 * k + 1)}
    IN  IF broken = {} THEN npairs ELSE Min(broken)

\* bit q of the Manchester output: the second bit of pair q, 0 if not written
manchester_bit(bb, n, q) == IF q < n THEN RowBit(bb, 2 * q + 1) ELSE 0

\* bitbuffer_manchester_decode(inbuf, row, 0, outbuf, max) into a zeroed
\* outbuf: one output row holding the bits decoded before the first
\* invalid pair
bitbuffer_manchester_decode(row, max) ==
    LET len == IF max # 0 /\ row.bits > max * 2 THEN max * 2 ELSE row.bits
        n   == manchester_count(row.bb, len)
    IN  [bits |-> n,
         bb   |-> Buffer(LAMBDA c :
                     128 * manchester_bit(row.bb, n, 8 * c)
                   + 64 * manchester_bit(row.bb, n, 8 * c + 1)
                   + 32 * manchester_bit(row.bb, n, 8 * c + 2)
                   + 16 * manchester_bit(row.bb, n, 8 * c + 3)
                   + 8 * manchester_bit(row.bb, n, 8 * c + 4)
                   + 4 * manchester_bit(row.bb, n, 8 * c + 5)
                   + 2 * manchester_bit(row.bb, n, 8 * c + 6)
                   + manchester_bit(row.bb, n, 8 * c + 7),
                     OUT_BYTES)]

\* reflect_bytes(message, num_bytes)
reflect_bytes(bb, num_bytes) ==
    Buffer(LAMBDA c :
               IF c < num_bytes THEN reflect_byte(At(bb, c)) ELSE At(bb, c),
           Len(bb))

\* ------------------------------------------------------------------------
\* Floats
\* ------------------------------------------------------------------------
\* binary exponent of n + d/10 for digits n in 0..99, d in 0..9 (not both 0)
float_exp(n, d) ==
    IF n >= 64 THEN 6 ELSE IF n >= 32 THEN 5 ELSE IF n >= 16 THEN 4
    ELSE IF n >= 8 THEN 3 ELSE IF n >= 4 THEN 2 ELSE IF n >= 2 THEN 1
    ELSE IF n >= 1 THEN 0 ELSE IF d >= 5 THEN 0 - 1
    ELSE IF d >= 3 THEN 0 - 2 ELSE IF d >= 2 THEN 0 - 3 ELSE 0 - 4

\* (float)(n + d * 0.1): the binary32 nearest to n + d/10, ties to even.
\* The double sum differs from n + d/10 by less than 2^-46, and n + d/10 is
\* either a binary32 value or at least 2^-22/10 away from the midpoint of
\* two of them, so rounding the double gives the same binary32.
\* The 24 bit significand is n * 2^(23-e) + m1; n * 2^(23-e) is even.
float_of_digits(n, d) ==
    IF n = 0 /\ d = 0 THEN [neg |-> FALSE, whole |-> 0, frac |-> 0]
    ELSE LET e  == float_exp(n, d)
             q  == d * (2 ^ (23 - e))
             m  == q \div 10
             r  == q % 10
             m1 == IF r > 5 \/ (r = 5 /\ m % 2 = 1) THEN m + 1 ELSE m
         IN  [neg |-> FALSE, whole |-> n, frac |-> m1 * (2 ^ (e + 4))]

\* temperature = -temperature
float_neg(f) == [f EXCEPT !.neg = ~f.neg]

\* signed integer part and signed fraction of a float
float_whole(f) == IF f.neg THEN 0 - f.whole ELSE f.whole
float_frac(f) == IF f.neg THEN 0 - f.frac ELSE f.frac

\* a lower limit that is never checked
float_lt_int_never(f, k) == FALSE

\* f < (float)k for an integer k
float_lt_int(f, k) ==
    float_whole(f) < k \/ (float_whole(f) = k /\ float_frac(f) < 0)

\* an upper limit that is exclusive: f >= (float)k
float_ge_int(f, k) == float_whole(f) >= k

\* f > (float)k for an integer k
float_gt_int(f, k) ==
    float_whole(f) > k \/ (float_whole(f) = k /\ float_frac(f) > 0)

\* w + fd * 2^-27 rounds to a binary32 above 12.0f.  The binary32 values
\* next to 12.0f are 2^-20 apart and 12.0f has an even significand, so the
\* rounded value exceeds 12.0f iff the exact one exceeds 12 + 2^-21, which
\* is 64 units of 2^-27.  |fd| < 2^28.
exceeds_max_delta(w, fd) ==
    IF w - MAX_TEMP_DELTA >= 3 THEN TRUE
    ELSE IF w - MAX_TEMP_DELTA <= 0 - 3 THEN FALSE
    ELSE (w - MAX_TEMP_DELTA) * FRAC_ONE + fd > 64

\* a delta check that forgets fabsf: only a rise is compared
delta_too_large_rise_only(temperature, last_temp) ==
    LET w  == float_whole(temperature) - float_whole(last_temp)
        fd == float_frac(temperature) - float_frac(last_temp)
    IN  exceeds_max_delta(w, fd)

\* fabsf(temperature - last_temp) > MAX_TEMP_DELTA
delta_too_large(temperature, last_temp) ==
    LET w  == float_whole(temperature) - float_whole(last_temp)
        fd == float_frac(temperature) - float_frac(last_temp)
    IN  exceeds_max_delta(w, fd) \/ exceeds_max_delta(0 - w, 0 - fd)

\* ------------------------------------------------------------------------
\* The device table
\* ------------------------------------------------------------------------
\* static device_state_t device_states[MAX_DEVICES]: zero initialised
ZeroFloat == [neg |-> FALSE, whole |-> 0, frac |-> 0]
ZeroState ==
    [device_id |-> 0, channel |-> 0, last_temperature |-> ZeroFloat,
     initialized |-> 0]

\* a scan that falls back on slot 0 when the table is full
RECURSIVE find_device_evict(_, _, _, _, _)
find_device_evict(states, device_id, channel, i, device_index) ==
    IF i >= MAX_DEVICES THEN (IF device_index = 0 - 1 THEN 0 ELSE device_index)
    ELSE IF states[i].initialized # 0
         THEN IF states[i].device_id = device_id /\ states[i].channel = channel
              THEN i
              ELSE find_device_evict(states, device_id, channel, i + 1,
                                     device_index)
         ELSE find_device_evict(states, device_id, channel, i + 1,
                                IF device_index = 0 - 1 THEN i
                                ELSE device_index)

\* a scan that compares the stored channel with the channel nibble
RECURSIVE find_device_nibble(_, _, _, _, _)
find_device_nibble(states, device_id, channel, i, device_index) ==
    IF i >= MAX_DEVICES THEN device_index
    ELSE IF states[i].initialized # 0
         THEN IF states[i].device_id = device_id
                 /\ states[i].channel = channel - 1
              THEN i
              ELSE find_device_nibble(states, device_id, channel, i + 1,
                                      device_index)
         ELSE find_device_nibble(states, device_id, channel, i + 1,
                                 IF device_index = 0 - 1 THEN i
                                 ELSE device_index)

\* a scan that matches on the device id alone
RECURSIVE find_device_id_only(_, _, _, _, _)
find_device_id_only(states, device_id, channel, i, device_index) ==
    IF i >= MAX_DEVICES THEN device_index
    ELSE IF states[i].initialized # 0
         THEN IF states[i].device_id = device_id
              THEN i
              ELSE find_device_id_only(states, device_id, channel, i + 1,
                                       device_index)
         ELSE find_device_id_only(states, device_id, channel, i + 1,
                                  IF device_index = 0 - 1 THEN i
                                  ELSE device_index)

\* a scan that keeps the last free slot it passes instead of the first
RECURSIVE find_device_last_free(_, _, _, _, _)
find_device_last_free(states, device_id, channel, i, device_index) ==
    IF i >= MAX_DEVICES THEN device_index
    ELSE IF states[i].initialized # 0
         THEN IF states[i].device_id = device_id /\ states[i].channel = channel
              THEN i
              ELSE find_device_last_free(states, device_id, channel, i + 1,
                                         device_index)
         ELSE find_device_last_free(states, device_id, channel, i + 1, i)

\* the scan for an existing device state or an empty slot, from slot i on,
\* with the device_index found so far
RECURSIVE find_device(_, _, _, _, _)
find_device(states, device_id, channel, i, device_index) ==
    IF i >= MAX_DEVICES THEN device_index
    ELSE IF states[i].initialized # 0
         THEN IF states[i].device_id = device_id /\ states[i].channel = channel
              THEN i
              ELSE find_device(states, device_id, channel, i + 1, device_index)
         ELSE find_device(states, device_id, channel, i + 1,
                          IF device_index = 0 - 1 THEN i ELSE device_index)

\* the lazy initialisation of the table: only the initialized flags are reset
init_states(states, inited) ==
    IF inited = 0
    THEN [i \in DOMAIN states |-> [states[i] EXCEPT !.initialized = 0]]
    ELSE states

\* a check for a previous reading that trusts every slot
has_previous_any(states, device_index) == TRUE

\* a check for a previous reading that trusts no slot
has_previous_never(states, device_index) == FALSE

\* if (device_states[device_index].initialized)
has_previous(states, device_index) == states[device_index].initialized # 0

\* a record that reports the channel nibble instead of the channel
data_make_nibble(device_id, channel, temperature) ==
    [model |-> "Oria-WA150KM", id |-> device_id, channel |-> channel - 1,
     temperature_C |-> temperature]

\* data_make: the record handed to decoder_output_data
data_make(device_id, channel, temperature) ==
    [model |-> "Oria-WA150KM", id |-> device_id, channel |-> channel,
     temperature_C |-> temperature]

\* a tracker that stores the reading before it checks the delta, so that a
\* rejected reading becomes the stored one
track_device_store_rejected(states, inited, device_id, channel, temperature, warn) ==
    LET st0          == init_states(states, inited)
        device_index == find_device(st0, device_id, channel, 0, 0 - 1)
        same(code, tag) ==
            [ret |-> code, log |-> warn \o <<tag>>, output |-> <<>>,
             device_states |-> st0, device_states_initialized |-> 1]
    IN  IF device_index = 0 - 1
        THEN same(DECODE_FAIL_SANITY, "TrackerFull")
        ELSE IF has_previous(st0, device_index)
                /\ delta_too_large(temperature,
                                   st0[device_index].last_temperature)
        THEN [same(DECODE_FAIL_SANITY, "TemperatureDeltaTooLarge")
                 EXCEPT !.device_states =
                     [st0 EXCEPT ![device_index].last_temperature =
                                     temperature]]
        ELSE [ret |-> 1, log |-> warn,
              output |-> <<data_make(device_id, channel, temperature)>>,
              device_states |->
                  [st0 EXCEPT ![device_index] =
                      [device_id |-> device_id, channel |-> channel,
                       last_temperature |-> temperature, initialized |-> 1]],
              device_states_initialized |-> 1]

\* the debounce tracker: everything after the field checks.
\* states and inited are the table and its flag before the call
track_device(states, inited, device_id, channel, temperature, warn) ==
    LET st0          == init_states(states, inited)
        device_index == find_device(st0, device_id, channel, 0, 0 - 1)
        same(code, tag) ==
            [ret |-> code, log |-> warn \o <<tag>>, output |-> <<>>,
             device_states |-> st0, device_states_initialized |-> 1]
    IN  IF device_index = 0 - 1
        THEN same(DECODE_FAIL_SANITY, "TrackerFull")
        ELSE IF has_previous(st0, device_index)
                /\ delta_too_large(temperature,
                                   st0[device_index].last_temperature)
        THEN same(DECODE_FAIL_SANITY, "TemperatureDeltaTooLarge")
        ELSE [ret |-> 1, log |-> warn,
              output |-> <<data_make(device_id, channel, temperature)>>,
              device_states |->
                  [st0 EXCEPT ![device_index] =
                      [device_id |-> device_id, channel |-> channel,
                       last_temperature |-> temperature, initialized |-> 1]],
              device_states_initialized |-> 1]

\* a channel that is the bare upper nibble
channel_of_nibble(b5) == (b5 \div 16) % 16

\* uint8_t channel = ((b[5] >> 4) & 0x0F) + 1
channel_of(b5) == (((b5 \div 16) % 16) + 1) % 256

\* field checks that reject a suspicious device id instead of warning
extract_fields_strict_id(b, states, inited) ==
    LET channel             == channel_of(At(b, 5))
        device_id           == At(b, 6)
        temp_decimal_nibble == (At(b, 7) \div 16) % 16
        temp_tens_nibble    == (At(b, 8) \div 16) % 16
        temp_ones_nibble    == At(b, 8) % 16
        magnitude           == float_of_digits(
                                   temp_tens_nibble * 10 + temp_ones_nibble,
                                   temp_decimal_nibble)
        temperature         == IF (At(b, 9) \div 8) % 2 = 1
                               THEN float_neg(magnitude) ELSE magnitude
        warn                == IF device_id = 0 \/ device_id = 255
                               THEN <<"SuspiciousDeviceId">> ELSE <<>>
        fail(tag) ==
            [ret |-> DECODE_FAIL_SANITY, log |-> <<tag>>, output |-> <<>>,
             device_states |-> states, device_states_initialized |-> inited]
    IN  IF At(b, 13) # 101 THEN fail("SanityTrailerMismatch")
        ELSE IF channel < 1 \/ channel > 16 THEN fail("ChannelOutOfRange")
        ELSE IF temp_decimal_nibble > 9 \/ temp_tens_nibble > 9
                \/ temp_ones_nibble > 9
        THEN fail("InvalidBcd")
        ELSE IF float_lt_int(temperature, 0 - 40)
                \/ float_gt_int(temperature, 60)
        THEN fail("TemperatureOutOfRange")
        ELSE IF warn # <<>> THEN fail("SuspiciousDeviceId")
        ELSE track_device(states, inited, device_id, channel, temperature,
                          warn)

\* field checks that look at the temperature range before the BCD digits
extract_fields_range_first(b, states, inited) ==
    LET channel             == channel_of(At(b, 5))
        device_id           == At(b, 6)
        temp_decimal_nibble == (At(b, 7) \div 16) % 16
        temp_tens_nibble    == (At(b, 8) \div 16) % 16
        temp_ones_nibble    == At(b, 8) % 16
        magnitude           == float_of_digits(
                                   temp_tens_nibble * 10 + temp_ones_nibble,
                                   temp_decimal_nibble)
        temperature         == IF (At(b, 9) \div 8) % 2 = 1
                               THEN float_neg(magnitude) ELSE magnitude
        warn                == IF device_id = 0 \/ device_id = 255
                               THEN <<"SuspiciousDeviceId">> ELSE <<>>
        fail(tag) ==
            [ret |-> DECODE_FAIL_SANITY, log |-> <<tag>>, output |-> <<>>,
             device_states |-> states, device_states_initialized |-> inited]
    IN  IF At(b, 13) # 101 THEN fail("SanityTrailerMismatch")
        ELSE IF channel < 1 \/ channel > 16 THEN fail("ChannelOutOfRange")
        ELSE IF float_lt_int(temperature, 0 - 40)
                \/ float_gt_int(temperature, 60)
        THEN fail("TemperatureOutOfRange")
        ELSE IF temp_decimal_nibble > 9 \/ temp_tens_nibble > 9
                \/ temp_ones_nibble > 9
        THEN fail("InvalidBcd")
        ELSE track_device(states, inited, device_id, channel, temperature,
                          warn)

\* the field extraction and sanity checks on the decoded bytes b
extract_fields(b, states, inited) ==
    LET channel             == channel_of(At(b, 5))
        device_id           == At(b, 6)
        temp_decimal_nibble == (At(b, 7) \div 16) % 16
        temp_tens_nibble    == (At(b, 8) \div 16) % 16
        temp_ones_nibble    == At(b, 8) % 16
        magnitude           == float_of_digits(
                                   temp_tens_nibble * 10 + temp_ones_nibble,
                                   temp_decimal_nibble)
        temperature         == IF (At(b, 9) \div 8) % 2 = 1
                               THEN float_neg(magnitude) ELSE magnitude
        warn                == IF device_id = 0 \/ device_id = 255
                               THEN <<"SuspiciousDeviceId">> ELSE <<>>
        fail(tag) ==
            [ret |-> DECODE_FAIL_SANITY, log |-> <<tag>>, output |-> <<>>,
             device_states |-> states, device_states_initialized |-> inited]
    IN  IF At(b, 13) # 101 THEN fail("SanityTrailerMismatch")
        ELSE IF channel < 1 \/ channel > 16 THEN fail("ChannelOutOfRange")
        ELSE IF temp_decimal_nibble > 9 \/ temp_tens_nibble > 9
                \/ temp_ones_nibble > 9
        THEN fail("InvalidBcd")
        ELSE IF float_lt_int(temperature, 0 - 40)
                \/ float_gt_int(temperature, 60)
        THEN fail("TemperatureOutOfRange")
        ELSE track_device(states, inited, device_id, channel, temperature,
                          warn)

\* a search loop without its break: it ends on the last matching row
find_row_last(buf) ==
    LET rows == {r \in 1..Len(buf) :
                    buf[r].bits = ORIA_WA150KM_BITLEN}
    IN  IF rows = {} THEN Len(buf) + 1
        ELSE CHOOSE r \in rows : \A q \in rows : q <= r

\* the row the search loop ends on: the first row of ORIA_WA150KM_BITLEN
\* bits, num_rows + 1 if there is none (rows are numbered from 1 here, from
\* 0 in the code)
find_row(buf) ==
    LET rows == {r \in 1..Len(buf) :
                    buf[r].bits = ORIA_WA150KM_BITLEN}
    IN  IF rows = {} THEN Len(buf) + 1 ELSE Min(rows)

\* a first part that inverts a copy and leaves the caller's bitbuffer alone
line_decode_on_copy(buf) ==
    LET r == find_row(buf)
        early(tag) ==
            [done |-> TRUE, log |-> <<tag>>, bitbuffer |-> buf,
             b |-> <<>>]
    IN  IF r = Len(buf) + 1 THEN early("NoMatchingRow")
        ELSE LET b == buf[r].bb IN
        IF \E i \in 0..(WARMUP_LEN - 1) : At(b, i) # 170
        THEN early("BadPreamble")
        ELSE IF At(b, (buf[r].bits \div 8) - 1) # 105
        THEN early("BadTrailer")
        ELSE LET inverted == bitbuffer_invert(buf)
                 manchester_buffer ==
                     bitbuffer_manchester_decode(inverted[r],
                                                 ORIA_WA150KM_BITLEN)
             IN  [done |-> FALSE, log |-> <<>>, bitbuffer |-> buf,
                  b |-> reflect_bytes(manchester_buffer.bb,
                                      (manchester_buffer.bits \div 8) + 1)]

\* the first part of oria_wa150km_decode, which does not look at the table:
\* row search, warmup and last byte checks, inversion, Manchester decoding
\* and reflection.  done tells that the call has returned 0; otherwise b is
\* the decoded buffer
line_decode(buf) ==
    LET r == find_row(buf)
        early(tag) ==
            [done |-> TRUE, log |-> <<tag>>, bitbuffer |-> buf,
             b |-> <<>>]
    IN  IF r = Len(buf) + 1 THEN early("NoMatchingRow")
        ELSE LET b == buf[r].bb IN
        IF \E i \in 0..(WARMUP_LEN - 1) : At(b, i) # 170
        THEN early("BadPreamble")
        ELSE IF At(b, (buf[r].bits \div 8) - 1) # 105
        THEN early("BadTrailer")
        ELSE LET inverted == bitbuffer_invert(buf)
                 manchester_buffer ==
                     bitbuffer_manchester_decode(inverted[r],
                                                 ORIA_WA150KM_BITLEN)
             IN  [done |-> FALSE, log |-> <<>>, bitbuffer |-> inverted,
                  b |-> reflect_bytes(manchester_buffer.bb,
                                      (manchester_buffer.bits \div 8) + 1)]

\* the rest of oria_wa150km_decode after its first part gave ld
finish_decode(ld, states, inited) ==
    IF ld.done
    THEN [ret |-> 0, log |-> ld.log, output |-> <<>>,
          bitbuffer |-> ld.bitbuffer,
          device_states |-> states, device_states_initialized |-> inited]
    ELSE LET res == extract_fields(ld.b, states, inited)
         IN  [ret |-> res.ret, log |-> res.log, output |-> res.output,
              bitbuffer |-> ld.bitbuffer,
              device_states |-> res.device_states,
              device_states_initialized |-> res.device_states_initialized]

\* oria_wa150km_decode: the return value, the diagnostics logged, the data
\* handed to decoder_output_data, and the bitbuffer and the table afterwards
oria_wa150km_decode(buf, states, inited) ==
    finish_decode(line_decode(buf), states, inited)

\* ------------------------------------------------------------------------
\* Frames: what a transmitter sends, and the bitbuffer the caller gets
\* ------------------------------------------------------------------------
\* A row is described by the fields of the data layout, the value of the
\* fixed last byte, the row length and the raw bytes overwritten by noise
\* (patch, a sequence of <<column, byte>>).

\* the 14 bytes of the data layout: FF FF FF MM ?? CC DD TT II SS ?? ?? ?? BB
payload(d) ==
    Buffer(LAMBDA k :
        CASE k < 3  -> 255
          [] k = 3  -> 250
          [] k = 4  -> 32
          [] k = 5  -> d.nib * 16
          [] k = 6  -> d.id
          [] k = 7  -> d.dec * 16
          [] k = 8  -> d.tens * 16 + d.ones
          [] k = 9  -> d.sign * 8
          [] k = 13 -> d.b13
          [] OTHER  -> 0,
        14)

\* bit q (0..111) on the air: the bytes are sent bit-reflected
air_bit(pl, q) == BitOf(At(pl, q \div 8), 7 - (q % 8))

\* raw column j (0..27) carries four bits, Manchester coded in the G.E.
\* Thomas convention as received: 1 is the pair 10, 0 is the pair 01
raw_byte(pl, j) ==
      64 * (air_bit(pl, 4 * j) + 1) + 16 * (air_bit(pl, 4 * j + 1) + 1)
    + 4 * (air_bit(pl, 4 * j + 2) + 1) + (air_bit(pl, 4 * j + 3) + 1)

\* the byte noise puts in column j, or v if the column is not hit
patched(patch, j, v) ==
    IF \E i \in 1..Len(patch) : patch[i][1] = j
    THEN patch[CHOOSE i \in 1..Len(patch) : patch[i][1] = j][2]
    ELSE v

\* the row of the bitbuffer for a row description
EncodeRow(d) ==
    LET pl == payload(d)
    IN  [bits |-> d.bits,
         bb   |-> Buffer(LAMBDA j :
                     patched(d.patch, j,
                             IF j < 28 THEN raw_byte(pl, j) ELSE 0),
                     ROW_BYTES)]

\* the bitbuffer for a frame description
EncodeFrame(f) == [r \in 1..Len(f) |-> EncodeRow(f[r])] \o <<>>

\* the reading of a row description, in tenths of a degree
Tenths(d) ==
    LET mag == 100 * d.tens + 10 * d.ones + d.dec
    IN  IF d.sign = 1 THEN 0 - mag ELSE mag

\* a clean row for device id, channel nibble nib and t tenths of a degree
CleanRow(id, nib, t) ==
    LET mag == IF t < 0 THEN 0 - t ELSE t
    IN  [bits |-> ORIA_WA150KM_BITLEN, id |-> id, nib |-> nib,
         tens |-> mag \div 100, ones |-> (mag \div 10) % 10, dec |-> mag % 10,
         sign |-> IF t < 0 THEN 1 ELSE 0, b13 |-> 101, patch |-> <<>>]

\* ---- bounds of the model ----
\* temperatures sent: TempBase + 12.0 * k for k in 0..MaxTempSteps
MaxTempSteps == 2
\* slots already taken by other sensors in the second initial state
Prefill == 30

\* -39.9, the lowest temperature sent, in tenths of a degree
TempBase == 0 - 399
Temps == {TempBase + 120 * k : k \in 0..MaxTempSteps}

\* the sensors in range: sensor A (id 0x5A, channel 1) reports every
\* temperature of Temps; sensor B (id 0x5A, channel 16), sensor C (id 0x00,
\* channel 1) and sensor D (id 0xFF, channel 16) report -39.9 and -15.9
CleanFrames ==
    {<<CleanRow(90, 0, t)>> : t \in Temps}
    \cup {<<CleanRow(p[1], p[2], t)>> :
              p \in {<<90, 15>>, <<0, 0>>, <<255, 15>>},
              t \in {TempBase, TempBase + 240}}

BaseRow == CleanRow(90, 0, TempBase + 120)
FaultFrames ==
    {<<>>,
     <<[BaseRow EXCEPT !.bits = 40]>>,
     <<[BaseRow EXCEPT !.patch = <<<<0, 0>>>>]>>,
     <<[BaseRow EXCEPT !.patch = <<<<1, 171>>>>]>>,
     <<[BaseRow EXCEPT !.patch = <<<<2, 85>>>>]>>,
     <<[BaseRow EXCEPT !.patch = <<<<27, 104>>>>]>>,
     <<[BaseRow EXCEPT !.b13 = 100]>>,
     <<[BaseRow EXCEPT !.patch = <<<<12, 255>>>>]>>,
     <<[BaseRow EXCEPT !.patch = <<<<26, 152>>>>]>>,
     <<[BaseRow EXCEPT !.dec = 10]>>,
     <<[BaseRow EXCEPT !.tens = 6, !.ones = 0, !.dec = 1, !.sign = 0]>>,
     <<[BaseRow EXCEPT !.tens = 4, !.ones = 0, !.dec = 1, !.sign = 1]>>}

Frames == CleanFrames \cup FaultFrames

\* ------------------------------------------------------------------------
\* The state machine
\* ------------------------------------------------------------------------
VARIABLES
    device_states,              \* the static table, slots 0..MAX_DEVICES-1
    device_states_initialized,  \* the static flag
    bitbuffer,                  \* the caller's bitbuffer after the last call
    ret,                        \* the value the last call returned
    log,                        \* the diagnostics of the last call
    output,                     \* the data the last call handed to the sink
    sent,                       \* the description of the last frame received
    emitted,                    \* per pair, the last temperature the sink got
    pending                     \* the calls under way, when calls interleave

vars == <<device_states, device_states_initialized, bitbuffer, ret, log,
          output, sent, emitted, pending>>

\* a slot taken by another sensor before the model starts to look: sensor
\* i has id 16 + i, channel (i % 16) + 1 and reported 20.0
OtherSensor(i) ==
    [device_id |-> 16 + i, channel |-> (i % 16) + 1,
     last_temperature |-> float_of_digits(20, 0), initialized |-> 1]

\* what the sink has got so far when the table is states: the readings the
\* entries of the table were written from
Reported(states) ==
    LET used == {i \in DOMAIN states : states[i].initialized # 0}
    IN  [k \in {<<states[i].device_id, states[i].channel>> : i \in used} |->
            states[CHOOSE i \in used :
                       <<states[i].device_id, states[i].channel>> = k
                  ].last_temperature]

\* the sink after it got the data of output, a sequence of at most one record
Sink(seen, data) ==
    IF data = <<>> THEN seen
    ELSE (<<data[1].id, data[1].channel>> :> data[1].temperature_C) @@ seen

Init ==
    /\ \/ /\ device_states = [i \in 0..(MAX_DEVICES - 1) |-> ZeroState]
          /\ device_states_initialized = 0
       \/ /\ device_states =
                [i \in 0..(MAX_DEVICES - 1) |->
                    IF i < Prefill THEN OtherSensor(i) ELSE ZeroState]
          /\ device_states_initialized = 1
    /\ bitbuffer = <<>>
    /\ ret = 0
    /\ log = <<>>
    /\ output = <<>>
    /\ sent = <<>>
    /\ emitted = Reported(device_states)
    /\ pending = <<>>

\* one call of the decode function that returns res
DecodeCall(res) ==
        /\ bitbuffer' = res.bitbuffer
        /\ ret' = res.ret
        /\ log' = res.log
        /\ output' = res.output
        /\ device_states' = res.device_states
        /\ device_states_initialized' = res.device_states_initialized
        /\ emitted' = Sink(emitted, res.output)
        /\ pending' = pending

\* the first part of the decoding of every frame of Frames
LineDecoded == [f \in Frames |-> line_decode(EncodeFrame(f))]

\* the caller received a frame and calls decode on it: the call is
\* oria_wa150km_decode(EncodeFrame(f), device_states,
\* device_states_initialized), its first part taken from LineDecoded
DecodeFrame ==
    \E f \in Frames :
        /\ sent' = f
        /\ DecodeCall(finish_decode(LineDecoded[f], device_states,
                                    device_states_initialized))

Next == DecodeFrame

Spec == Init /\ [][Next]_vars

\* ------------------------------------------------------------------------
\* Vocabulary of the properties
\* ------------------------------------------------------------------------
Abs(x) == IF x < 0 THEN 0 - x ELSE x

\* a float to one decimal, in tenths of a degree (as "%.1f" prints it)
FloatTenths(x) ==
    LET mag == 10 * x.whole + ((10 * x.frac + (FRAC_ONE \div 2)) \div FRAC_ONE)
    IN  IF x.neg THEN 0 - mag ELSE mag

\* the frame carries a structurally valid reading
Valid(f) == f \in CleanFrames
\* the device id, the channel and the temperature (in tenths) it carries
FrameId(f) == f[1].id
FrameChannel(f) == f[1].nib + 1
FrameTenths(f) == Tenths(f[1])

\* the slots of the table that track the pair of frame f
Slots(states, f) ==
    {i \in 0..(MAX_DEVICES - 1) :
        /\ states[i].initialized # 0
        /\ states[i].device_id = FrameId(f)
        /\ states[i].channel = FrameChannel(f)}
Tracked(states, f) == Slots(states, f) # {}
\* the stored temperature of the pair of f, in tenths
StoredTenths(states, f) ==
    FloatTenths(states[CHOOSE i \in Slots(states, f) : TRUE].last_temperature)
\* the distance of the reading of f to the stored temperature, in tenths
Delta(states, f) == Abs(FrameTenths(f) - StoredTenths(states, f))

Used(states) == {i \in 0..(MAX_DEVICES - 1) : states[i].initialized # 0}
Full(states) == Cardinality(Used(states)) = MAX_DEVICES
Key(e) == <<e.device_id, e.channel>>

\* the last call was rejected with the diagnostic tag
Rejected(tag) ==
    /\ ret = DECODE_FAIL_SANITY
    /\ output = <<>>
    /\ log # <<>> /\ log[Len(log)] = tag

\* ------------------------------------------------------------------------
\* C1: a reading for a tracked pair that differs from the stored
\* temperature by more than 12.0 is rejected, nothing is emitted and the
\* whole table is left as it was (so the next delta is taken against the
\* last accepted temperature)
\* ------------------------------------------------------------------------
C1_LargeDeltaRejected ==
    [][ (/\ Valid(sent')
         /\ Tracked(device_states, sent')
         /\ Delta(device_states, sent') > 120)
        => (/\ ret' = DECODE_FAIL_SANITY
            /\ log'[Len(log')] = "TemperatureDeltaTooLarge"
            /\ output' = <<>>
            /\ device_states' = device_states) ]_vars

C1_Witness ==
    /\ Valid(sent)
    /\ Rejected("TemperatureDeltaTooLarge")
    /\ Tracked(device_states, sent)
    /\ Delta(device_states, sent) > 120

\* ------------------------------------------------------------------------
\* C2: a valid reading for a tracked pair at most 12.0 from the stored
\* temperature (12.0 included) is accepted, and the stored temperature of
\* the pair is then the new one
\* ------------------------------------------------------------------------
C2_SmallDeltaAccepted ==
    [][ (/\ Valid(sent')
         /\ Tracked(device_states, sent')
         /\ Delta(device_states, sent') <= 120)
        => (/\ ret' = 1
            /\ Tracked(device_states', sent')
            /\ StoredTenths(device_states', sent') = FrameTenths(sent')) ]_vars

\* ------------------------------------------------------------------------
\* C3: the first valid reading for a pair without an entry is always
\* accepted
\* ------------------------------------------------------------------------
C3_FirstReadingAccepted ==
    [][ (Valid(sent') /\ ~Tracked(device_states, sent')) => ret' = 1 ]_vars

\* C3 as amended: the first valid reading for a pair without an entry is
\* accepted, whatever its temperature, when the table has a free slot, and
\* the pair is then tracked with that temperature; when the table is full
\* it is rejected
C3_FirstReadingAcceptedIfRoom ==
    [][ (Valid(sent') /\ ~Tracked(device_states, sent'))
        => IF Full(device_states)
           THEN ret' = DECODE_FAIL_SANITY
           ELSE /\ ret' = 1
                /\ Tracked(device_states', sent')
                /\ StoredTenths(device_states', sent') = FrameTenths(sent')
      ]_vars

\* a pair was accepted on its first reading while other pairs were tracked
C3_Witness ==
    /\ Valid(sent)
    /\ ret = 1
    /\ Cardinality(Used(device_states)) >= 2
    /\ \A i \in Slots(device_states, sent) :
           i = Cardinality(Used(device_states)) - 1

\* ------------------------------------------------------------------------
\* C4: once the table holds 32 pairs, every later reading for a pair not in
\* the table is rejected (tracker full) without emitting and without
\* changing any entry, and no entry is ever evicted, cleared or re-keyed
\* ------------------------------------------------------------------------
C4_FullTableRejectsNewPairs ==
    [][ Full(device_states)
        => /\ Full(device_states')
           /\ \A i \in 0..(MAX_DEVICES - 1) :
                  Key(device_states'[i]) = Key(device_states[i])
           /\ (Valid(sent') /\ ~Tracked(device_states, sent'))
              => (/\ ret' = DECODE_FAIL_SANITY
                  /\ log'[Len(log')] = "TrackerFull"
                  /\ output' = <<>>
                  /\ device_states' = device_states) ]_vars

C4_Witness ==
    /\ Full(device_states)
    /\ Valid(sent)
    /\ ~Tracked(device_states, sent)
    /\ Rejected("TrackerFull")

\* ------------------------------------------------------------------------
\* C5: with a full table a reading for a tracked pair is never rejected as
\* tracker full: it is accepted exactly when it is at most 12.0 from the
\* stored temperature, and on acceptance the entry is updated
\* ------------------------------------------------------------------------
C5_FullTableDeltaRule ==
    [][ (/\ Full(device_states)
         /\ Valid(sent')
         /\ Tracked(device_states, sent'))
        => (/\ log' = <<>> \/ log'[Len(log')] # "TrackerFull"
            /\ (ret' = 1) <=> (Delta(device_states, sent') <= 120)
            /\ ret' = 1 =>
                 StoredTenths(device_states', sent') = FrameTenths(sent'))
      ]_vars

\* ------------------------------------------------------------------------
\* C6: the table holds at most one initialized entry per (device_id,
\* channel) pair and at most 32 initialized entries
\* ------------------------------------------------------------------------
C6_OneEntryPerPair ==
    /\ \A i, j \in Used(device_states) :
           Key(device_states[i]) = Key(device_states[j]) => i = j
    /\ Cardinality(Used(device_states)) <= MAX_DEVICES
    /\ DOMAIN device_states = 0..(MAX_DEVICES - 1)

\* an accepted reading for a pair that was tracked before a later pair came
C6_Witness ==
    /\ Valid(sent)
    /\ ret = 1
    /\ \E i \in Slots(device_states, sent) :
           \E j \in Used(device_states) : j > i

\* ------------------------------------------------------------------------
\* C7: a decode call for one pair changes at most the entry of that pair,
\* so a reading on one channel alters neither the stored temperature nor
\* the outcome of later readings of the same device_id on another channel
\* ------------------------------------------------------------------------
\* what a call with frame g returns on table states
Outcome(g, states, inited) == finish_decode(LineDecoded[g], states, inited).ret

\* the frames of the same device_id on another channel than f
OtherChannel(f) ==
    {g \in CleanFrames :
        FrameId(g) = FrameId(f) /\ FrameChannel(g) # FrameChannel(f)}

\* the entries a call changed belong to the pair of the frame it got
OnlyOwnEntry ==
    \A i \in 0..(MAX_DEVICES - 1) :
        device_states'[i] # device_states[i]
        => /\ Valid(sent')
           /\ Key(device_states'[i]) = <<FrameId(sent'), FrameChannel(sent')>>
           /\ \/ device_states[i].initialized = 0
              \/ Key(device_states[i]) = Key(device_states'[i])

C7_ChannelsIndependent ==
    [][ /\ OnlyOwnEntry
        /\ Valid(sent') =>
             \A g \in OtherChannel(sent') :
                 Outcome(g, device_states', device_states_initialized')
                 = Outcome(g, device_states, device_states_initialized)
      ]_vars

\* C7 as amended: a decode call for one pair changes at most the entry of
\* that pair, so a reading on one channel alters neither the stored
\* temperature of the same device_id on another channel nor, when that
\* other channel is already tracked, the outcome of its later readings (an
\* untracked one can find the last free slot taken)
C7_TrackedChannelsIndependent ==
    [][ /\ OnlyOwnEntry
        /\ Valid(sent') =>
             \A g \in OtherChannel(sent') :
                 Tracked(device_states, g)
                 => Outcome(g, device_states', device_states_initialized')
                    = Outcome(g, device_states, device_states_initialized)
      ]_vars

\* a reading was accepted while the same device_id was tracked on another
\* channel
C7_Witness ==
    /\ Valid(sent)
    /\ ret = 1
    /\ \E i \in Used(device_states) :
           /\ device_states[i].device_id = FrameId(sent)
           /\ device_states[i].channel # FrameChannel(sent)

\* ------------------------------------------------------------------------
\* C8: a call emits exactly one reading if it returns 1 and none otherwise,
\* and the emitted device id, channel and temperature are those of the
\* frame of that call
\* ------------------------------------------------------------------------
C8_EmitsIffAccepted ==
    /\ ret = 1 =>
         /\ Len(output) = 1
         /\ output[1].id = FrameId(sent)
         /\ output[1].channel = FrameChannel(sent)
         /\ FloatTenths(output[1].temperature_C) = FrameTenths(sent)
    /\ ret # 1 => output = <<>>

C8_Witness == ret = 1 /\ Len(output) = 1 /\ Valid(sent)

\* ------------------------------------------------------------------------
\* C9: a wrong warmup byte, a wrong raw last byte and a wrong decoded byte
\* 13 give results that differ from each other and from the result of a
\* frame without a 227 bit row
\* ------------------------------------------------------------------------
\* column c of the row is overwritten with a byte other than v
Overwritten(d, c, v) ==
    \E i \in 1..Len(d.patch) : d.patch[i][1] = c /\ d.patch[i][2] # v

\* the framing failure a frame is built to have
FramingClass(f) ==
    IF \A r \in 1..Len(f) : f[r].bits # ORIA_WA150KM_BITLEN THEN "NoFrame"
    ELSE IF Len(f) # 1 THEN "other"
    ELSE IF \E c \in 0..(WARMUP_LEN - 1) : Overwritten(f[1], c, 170)
    THEN "BadPreamble"
    ELSE IF Overwritten(f[1], 27, 105) THEN "BadTrailer"
    ELSE IF f[1].patch = <<>> /\ f[1].b13 # 101 THEN "SanityTrailerMismatch"
    ELSE "other"

FramingFailures == {"BadPreamble", "BadTrailer", "SanityTrailerMismatch"}

C9_FramingFailuresDistinct ==
    FramingClass(sent) \in FramingFailures
    => /\ ret # 1
       /\ \A g \in Frames :
              (/\ FramingClass(g) \in FramingFailures \cup {"NoFrame"}
               /\ FramingClass(g) # FramingClass(sent))
              => ret # Outcome(g, device_states, device_states_initialized)

\* ------------------------------------------------------------------------
\* C10: when the Manchester decoding of the selected row fails, the call
\* returns as for a frame without a 227 bit row (0) and reports no sanity
\* rejection
\* ------------------------------------------------------------------------
\* a byte with a pair of equal bits
BrokenPairs(v) == \E p \in 0..3 : BitOf(v, 2 * p) = BitOf(v, 2 * p + 1)

\* a 227 bit row with good warmup bytes and last byte whose coding is
\* broken somewhere in between
ManchesterFault(f) ==
    /\ Len(f) = 1
    /\ f[1].bits = ORIA_WA150KM_BITLEN
    /\ f[1].patch # <<>>
    /\ \A i \in 1..Len(f[1].patch) :
           /\ f[1].patch[i][1] \in WARMUP_LEN..26
           /\ BrokenPairs(f[1].patch[i][2])

C10_ManchesterFailureIsNoFrame ==
    ManchesterFault(sent) => (ret = 0 /\ ret # DECODE_FAIL_SANITY)

\* ------------------------------------------------------------------------
\* Frames of several rows, readings at the ends of the range, frames with
\* several faults, and a caller that hands the same bitbuffer in again
\* ------------------------------------------------------------------------
\* sensor E (id 0x33, channel 1) reports the two ends of the range
EdgeTemps == {0 - 400, 600}
ERow(t) == CleanRow(51, 0, t)
\* sensor F (id 0x33, channel 16) and sensor G (id 0x44, channel 1)
FRow == CleanRow(51, 15, 0 - 400)
GRow == CleanRow(68, 0, 600)

\* a short row of noise
JunkRow == [GRow EXCEPT !.bits = 40, !.patch = <<<<0, 255>>, <<1, 0>>>>]
\* the transmission of sensor G cut to 226 bits or run on to 228 bits
NearRow(bits) == [GRow EXCEPT !.bits = bits]
\* rows of 227 bits that fail one check
BadWarmupRow == [GRow EXCEPT !.patch = <<<<1, 171>>>>]
BadTrailerRow == [GRow EXCEPT !.patch = <<<<27, 104>>>>]
BadByte13Row == [GRow EXCEPT !.b13 = 100]
BadBcdRow == [GRow EXCEPT !.ones = 10]
TooHotRow == [ERow(600) EXCEPT !.dec = 1]
TooColdRow == [ERow(0 - 400) EXCEPT !.dec = 1]

\* the low nibble of byte 5 travels in raw column 10: 0xAA sets it to 0xF,
\* 0x96 to 0x9
LowNibbleFrames ==
    {<<[ERow(600) EXCEPT !.patch = <<<<10, 170>>>>]>>,
     <<[FRow EXCEPT !.patch = <<<<10, 150>>>>]>>}

EdgeFrames ==
    {<<ERow(t)>> : t \in EdgeTemps}
    \cup {<<FRow>>, <<GRow>>, <<TooHotRow>>, <<TooColdRow>>}

RowFrames ==
    {<<JunkRow, ERow(t)>> : t \in EdgeTemps}
    \cup {<<NearRow(226), ERow(600)>>, <<NearRow(228), ERow(0 - 400)>>,
          <<ERow(0 - 400), GRow>>, <<ERow(600), JunkRow>>,
          <<BadWarmupRow, ERow(600)>>, <<BadTrailerRow, ERow(600)>>,
          <<BadByte13Row, ERow(600)>>, <<BadBcdRow, ERow(600)>>,
          <<TooHotRow, ERow(600)>>,
          <<>>, <<JunkRow>>, <<JunkRow, NearRow(228)>>, <<NearRow(226)>>}

\* single rows that fail more than one check
MultiFaultFrames ==
    {<<[GRow EXCEPT !.patch = <<<<0, 0>>, <<27, 104>>>>]>>,
     <<[GRow EXCEPT !.patch = <<<<27, 104>>>>, !.b13 = 100, !.dec = 10]>>,
     <<[GRow EXCEPT !.b13 = 100, !.dec = 10, !.tens = 9]>>,
     <<[GRow EXCEPT !.tens = 9, !.ones = 10]>>,
     <<[GRow EXCEPT !.tens = 10, !.sign = 1]>>,
     <<[GRow EXCEPT !.patch = <<<<2, 85>>, <<12, 255>>>>, !.tens = 9]>>}

WideFrames ==
    EdgeFrames \cup LowNibbleFrames \cup RowFrames \cup MultiFaultFrames

\* the first part of the decoding of every frame of WideFrames
WideDecoded == [f \in WideFrames |-> line_decode(EncodeFrame(f))]

\* the caller received a frame of WideFrames and calls decode on it
DecodeWideFrame ==
    \E f \in WideFrames :
        /\ sent' = f
        /\ DecodeCall(finish_decode(WideDecoded[f], device_states,
                                    device_states_initialized))

\* the caller calls decode once more on the bitbuffer of the last call
DecodeSameFrame ==
    /\ sent' = sent
    /\ DecodeCall(oria_wa150km_decode(bitbuffer, device_states,
                                      device_states_initialized))

NextWide == DecodeWideFrame \/ DecodeSameFrame

SpecWide == Init /\ [][NextWide]_vars

\* ------------------------------------------------------------------------
\* Vocabulary for frames of several rows
\* ------------------------------------------------------------------------
\* the frame has a row of 227 bits, and the first such row
HasRow(f) == \E r \in 1..Len(f) : f[r].bits = 227
FirstRow(f) == f[Min({r \in 1..Len(f) : f[r].bits = 227})]

\* what the last diagnostic of a log tells, "Accepted" if it is no rejection
Verdict(code, msgs) ==
    IF code = 1 THEN "Accepted" ELSE msgs[Len(msgs)]

\* the table without an entry, before the first call
NoStates == [i \in 0..(MAX_DEVICES - 1) |-> ZeroState]

\* the slots that track the pair of row d, and the distance of its reading
\* to the stored temperature, in tenths
RowSlots(states, d) ==
    {i \in Used(states) : Key(states[i]) = <<d.id, d.nib + 1>>}
RowDelta(states, d) ==
    Abs(Tenths(d) - FloatTenths(
            states[CHOOSE i \in RowSlots(states, d) : TRUE].last_temperature))

\* ------------------------------------------------------------------------
\* C11: decode looks at the first row of exactly 227 bits only: the rows
\* of other lengths and the rows after it have no influence on the result,
\* a frame without such a row gives NoFrame (0, nothing changed), and a
\* failure of the first 227 bit row ends the call although a later row
\* would decode
\* ------------------------------------------------------------------------
\* the first part of the decoding of the first 227 bit row sent alone
AloneDecoded ==
    [f \in {g \in WideFrames : HasRow(g)} |->
        line_decode(EncodeFrame(<<FirstRow(f)>>))]

C11_FirstMatchingRowOnly ==
    [][ DecodeWideFrame =>
          IF HasRow(sent')
          THEN LET alone == finish_decode(AloneDecoded[sent'], device_states,
                                          device_states_initialized)
               IN  /\ ret' = alone.ret
                   /\ log' = alone.log
                   /\ output' = alone.output
                   /\ device_states' = alone.device_states
                   /\ device_states_initialized'
                      = alone.device_states_initialized
          ELSE /\ ret' = 0
               /\ log' = <<"NoMatchingRow">>
               /\ output' = <<>>
               /\ bitbuffer' = EncodeFrame(sent')
               /\ UNCHANGED <<device_states, device_states_initialized>>
      ]_vars

\* a reading was accepted from a row that came after a row of noise
C11_Witness ==
    /\ Len(sent) = 2
    /\ sent[1].bits # 227
    /\ sent[2].bits = 227
    /\ ret = 1
    /\ output[1].id = sent[2].id

\* ------------------------------------------------------------------------
\* C12: the range check is inclusive at both ends: a reading of exactly
\* -40.0 or 60.0 passes it and is accepted or rejected by the tracker alone,
\* a reading of -40.1 or 60.1 is rejected as out of range and the table is
\* neither initialised nor changed
\* ------------------------------------------------------------------------
\* the first 227 bit row of f passes every check before the range check
WellFormed(f) ==
    /\ HasRow(f)
    /\ FirstRow(f).b13 = 101
    /\ FirstRow(f).tens <= 9 /\ FirstRow(f).ones <= 9 /\ FirstRow(f).dec <= 9
    /\ \A i \in 1..Len(FirstRow(f).patch) :
           /\ FirstRow(f).patch[i][1] = 10
           /\ ~BrokenPairs(FirstRow(f).patch[i][2])

\* what the tracker does with the reading of row d, at a distance other
\* than 12.0 from the stored one
TrackerVerdict(states, d) ==
    IF RowSlots(states, d) = {}
    THEN IF Full(states) THEN "TrackerFull" ELSE "Accepted"
    ELSE IF RowDelta(states, d) > 120 THEN "TemperatureDeltaTooLarge"
    ELSE "Accepted"

C12_RangeIsInclusive ==
    [][ (DecodeWideFrame /\ WellFormed(sent')) =>
          LET d == FirstRow(sent')
          IN  /\ Tenths(d) \in {0 - 400, 600} =>
                   Verdict(ret', log') = TrackerVerdict(device_states, d)
              /\ Tenths(d) \in {0 - 401, 601} =>
                   /\ ret' = DECODE_FAIL_SANITY
                   /\ log' = <<"TemperatureOutOfRange">>
                   /\ output' = <<>>
                   /\ UNCHANGED <<device_states, device_states_initialized>>
      ]_vars

\* 60.0 was accepted while another pair is stored at -40.0
C12_Witness ==
    /\ WellFormed(sent)
    /\ Tenths(FirstRow(sent)) = 600
    /\ ret = 1
    /\ FloatTenths(output[1].temperature_C) = 600
    /\ \E i \in Used(device_states) :
           /\ device_states[i].last_temperature.neg
           /\ device_states[i].last_temperature.whole = 40
           /\ device_states[i].last_temperature.frac = 0

\* ------------------------------------------------------------------------
\* C13: whatever byte 5 holds, the channel taken from it lies in 1..16, so
\* no call is rejected for its channel and every channel stored in the
\* table or handed to the sink lies in 1..16
\* ------------------------------------------------------------------------
C13_ChannelAlwaysInRange ==
    /\ \A b5 \in 0..255 : channel_of(b5) \in 1..16
    /\ \A k \in 1..Len(log) : log[k] # "ChannelOutOfRange"
    /\ \A i \in Used(device_states) : device_states[i].channel \in 1..16
    /\ output # <<>> => output[1].channel \in 1..16

\* byte 5 was 0xF9 and the reading was stored and emitted on channel 16
C13_Witness ==
    /\ Len(sent) = 1
    /\ sent[1].nib = 15
    /\ sent[1].patch = <<<<10, 150>>>>
    /\ ret = 1
    /\ output[1].channel = 16
    /\ \E i \in Used(device_states) : Key(device_states[i]) = <<51, 16>>

\* ------------------------------------------------------------------------
\* C14: a device id of 0x00 or 0xFF is no reason for rejection: with the
\* ids exchanged throughout, a frame with such an id has the outcome, the
\* table update and the emission of the same frame from device id 0x5A
\* ------------------------------------------------------------------------
\* the table with the device ids a and b exchanged in its entries
Renamed(states, a, b) ==
    [i \in DOMAIN states |->
        IF states[i].initialized = 0 THEN states[i]
        ELSE IF states[i].device_id = a THEN [states[i] EXCEPT !.device_id = b]
        ELSE IF states[i].device_id = b THEN [states[i] EXCEPT !.device_id = a]
        ELSE states[i]]

\* the frame f as device id 0x5A sends it
Twin(f) == <<[f[1] EXCEPT !.id = 90]>>

C14_SuspiciousIdNotRejected ==
    [][ (Valid(sent') /\ FrameId(sent') \in {0, 255}) =>
          LET id   == FrameId(sent')
              twin == finish_decode(LineDecoded[Twin(sent')],
                                    Renamed(device_states, id, 90),
                                    device_states_initialized)
          IN  /\ ret' = twin.ret
              /\ log' = <<"SuspiciousDeviceId">> \o twin.log
              /\ output' = [k \in 1..Len(twin.output) |->
                               [twin.output[k] EXCEPT !.id = id]]
              /\ Renamed(device_states', id, 90) = twin.device_states
              /\ device_states_initialized' = twin.device_states_initialized
      ]_vars

\* a reading of device id 0xFF was accepted and one of device id 0x00 is
\* in the table
C14_Witness ==
    /\ Valid(sent)
    /\ FrameId(sent) = 255
    /\ ret = 1
    /\ output[1].id = 255
    /\ \E i \in Used(device_states) : device_states[i].device_id = 0

\* ------------------------------------------------------------------------
\* C15: the checks run in the order row selection, warmup bytes, raw last
\* byte, decoded byte 13, channel, BCD digits, temperature range, tracker
\* capacity, temperature delta, and the first that fails ends the call; a
\* call that fails before the tracker neither depends on the table nor
\* changes it
\* ------------------------------------------------------------------------
\* the first check the frame f fails when the table is states, from how the
\* frame was built
FirstFailure(f, states) ==
    IF ~HasRow(f) THEN "NoMatchingRow"
    ELSE LET d == FirstRow(f)
         IN  IF \E c \in 0..2 : Overwritten(d, c, 170) THEN "BadPreamble"
             ELSE IF Overwritten(d, 27, 105) THEN "BadTrailer"
             ELSE IF \/ d.b13 # 101
                     \/ \E i \in 1..Len(d.patch) : BrokenPairs(d.patch[i][2])
             THEN "SanityTrailerMismatch"
             ELSE IF d.nib + 1 < 1 \/ d.nib + 1 > 16 THEN "ChannelOutOfRange"
             ELSE IF d.tens > 9 \/ d.ones > 9 \/ d.dec > 9 THEN "InvalidBcd"
             ELSE IF Tenths(d) < 0 - 400 \/ Tenths(d) > 600
             THEN "TemperatureOutOfRange"
             ELSE TrackerVerdict(states, d)

BeforeTracker ==
    {"NoMatchingRow", "BadPreamble", "BadTrailer", "SanityTrailerMismatch",
     "ChannelOutOfRange", "InvalidBcd", "TemperatureOutOfRange"}

C15_ChecksInOrder ==
    [][ DecodeWideFrame =>
          /\ Verdict(ret', log') = FirstFailure(sent', device_states)
          /\ FirstFailure(sent', device_states) \in BeforeTracker =>
               LET blank == finish_decode(WideDecoded[sent'], NoStates, 0)
               IN  /\ ret' = blank.ret
                   /\ log' = blank.log
                   /\ output' = <<>>
                   /\ UNCHANGED <<device_states, device_states_initialized>>
      ]_vars

\* a row with a wrong byte 13, a wrong decimal digit and 90 degrees was
\* rejected for byte 13 while the table held entries
C15_Witness ==
    /\ Len(sent) = 1
    /\ sent[1].b13 # 101 /\ sent[1].dec > 9 /\ sent[1].tens = 9
    /\ sent[1].patch = <<>>
    /\ Rejected("SanityTrailerMismatch")
    /\ Used(device_states) # {}

\* ------------------------------------------------------------------------
\* C16: the delta bound knows no time and no retry: in every state, every
\* reading more than 12.0 from the stored temperature of its pair would be
\* rejected, and a stored temperature changes only when a reading of its
\* pair within 12.0 of it is accepted, to that reading
\* ------------------------------------------------------------------------
StillRejected ==
    \A g \in CleanFrames :
        (Tracked(device_states, g) /\ Delta(device_states, g) > 120)
        => Outcome(g, device_states, device_states_initialized)
           = DECODE_FAIL_SANITY

StoredMoves ==
    \A i \in Used(device_states) :
        device_states'[i].last_temperature # device_states[i].last_temperature
        => /\ Valid(sent')
           /\ Key(device_states[i]) = <<FrameId(sent'), FrameChannel(sent')>>
           /\ ret' = 1
           /\ Delta(device_states, sent') <= 120
           /\ FloatTenths(device_states'[i].last_temperature)
              = FrameTenths(sent')

C16_DeltaBoundPersists == [] StillRejected /\ [][StoredMoves]_vars

\* a reading more than 12.0 off was rejected, the stored temperature is
\* still more than 12.0 from it, and other pairs are tracked as well
C16_Witness ==
    /\ Valid(sent)
    /\ Rejected("TemperatureDeltaTooLarge")
    /\ Delta(device_states, sent) > 120
    /\ \E g \in CleanFrames :
           /\ FrameId(g) # FrameId(sent)
           /\ Tracked(device_states, g)

\* ------------------------------------------------------------------------
\* Two calls at once.  The table is static data without a lock, so two
\* callers can run oria_wa150km_decode at the same time; a call is then
\* two steps, the lookup with its checks (up to the delta check) and the
\* write with the emission, and the steps of the two calls interleave
\* ------------------------------------------------------------------------
Threads == {1, 2}

\* the device id, channel and temperature the decoder takes from a frame
\* that passes the field checks
Fields(f) == finish_decode(LineDecoded[f], NoStates, 0).output[1]

\* the lookup of a call: lazy initialisation, scan, capacity and delta check
lookup_device(states, inited, device_id, channel, temperature) ==
    LET st0          == init_states(states, inited)
        device_index == find_device(st0, device_id, channel, 0, 0 - 1)
    IN  [device_states |-> st0,
         device_index  |-> device_index,
         verdict |->
             IF device_index = 0 - 1 THEN "TrackerFull"
             ELSE IF has_previous(st0, device_index)
                     /\ delta_too_large(temperature,
                                        st0[device_index].last_temperature)
             THEN "TemperatureDeltaTooLarge"
             ELSE "Accepted"]

\* the write of a call: the entry at device_index is overwritten
write_device(states, device_index, device_id, channel, temperature) ==
    [states EXCEPT ![device_index] =
        [device_id |-> device_id, channel |-> channel,
         last_temperature |-> temperature, initialized |-> 1]]

\* the calls of thread t and of the other threads
Started(t) == t \in DOMAIN pending
Writing(t) == Started(t) /\ pending[t].pc = "write"

\* thread t gets frame f and runs its call up to the delta check
Lookup(t) ==
    /\ ~Started(t)
    /\ \E f \in CleanFrames :
         LET fld  == Fields(f)
             warn == IF fld.id = 0 \/ fld.id = 255
                     THEN <<"SuspiciousDeviceId">> ELSE <<>>
             look == lookup_device(device_states, device_states_initialized,
                                   fld.id, fld.channel, fld.temperature_C)
             call == [frame |-> f, device_index |-> look.device_index,
                      raced |-> \E u \in Threads \ {t} : Writing(u)]
         IN  /\ sent' = f
             /\ bitbuffer' = LineDecoded[f].bitbuffer
             /\ device_states' = look.device_states
             /\ device_states_initialized' = 1
             /\ IF look.verdict = "Accepted"
                THEN /\ pending' = (t :> (call @@ [pc |-> "write", ret |-> 0]))
                                   @@ pending
                     /\ UNCHANGED <<ret, log, output>>
                ELSE /\ pending' = (t :> (call @@ [pc  |-> "done",
                                                   ret |-> DECODE_FAIL_SANITY]))
                                   @@ pending
                     /\ ret' = DECODE_FAIL_SANITY
                     /\ log' = warn \o <<look.verdict>>
                     /\ output' = <<>>
             /\ UNCHANGED emitted

\* thread t writes the entry it found, emits the reading and returns 1
Write(t) ==
    /\ Writing(t)
    /\ LET fld == Fields(pending[t].frame)
       IN  /\ device_states' =
                  write_device(device_states, pending[t].device_index,
                               fld.id, fld.channel, fld.temperature_C)
           /\ output' = <<data_make(fld.id, fld.channel, fld.temperature_C)>>
           /\ emitted' = Sink(emitted, output')
           /\ log' = IF fld.id = 0 \/ fld.id = 255
                     THEN <<"SuspiciousDeviceId">> ELSE <<>>
    /\ ret' = 1
    /\ pending' = [pending EXCEPT ![t].pc = "done", ![t].ret = 1]
    /\ UNCHANGED <<device_states_initialized, bitbuffer, sent>>

NextRace == \E t \in Threads : Lookup(t) \/ Write(t)

SpecRace == Init /\ [][NextRace]_vars

\* ------------------------------------------------------------------------
\* C17: without synchronisation two calls for the same pair that interleave
\* between lookup and write can both be accepted although their readings
\* are more than 12.0 apart; that happens only when one call did its lookup
\* while the other was between its lookup and its write, so never when
\* lookup, delta check and write of a call are one atomic step
\* ------------------------------------------------------------------------
\* both calls were accepted, for the same pair, more than 12.0 apart
BothAcceptedFarApart ==
    /\ \A t \in Threads :
           Started(t) /\ pending[t].pc = "done" /\ pending[t].ret = 1
    /\ FrameId(pending[1].frame) = FrameId(pending[2].frame)
    /\ FrameChannel(pending[1].frame) = FrameChannel(pending[2].frame)
    /\ Abs(FrameTenths(pending[1].frame) - FrameTenths(pending[2].frame))
       > 120

C17_OnlyInterleavedCallsBothPass ==
    BothAcceptedFarApart => \E t \in Threads : pending[t].raced

C17_Witness ==
    /\ BothAcceptedFarApart
    /\ \E t \in Threads : pending[t].raced

\* ------------------------------------------------------------------------
\* C18: every initialized entry of the table holds a temperature from
\* -40.0 to 60.0 and a channel from 1 to 16, and its temperature is the one
\* of the reading last handed to the sink for its pair
\* ------------------------------------------------------------------------
\* -40.0 <= x <= 60.0, exactly
InRange(x) ==
    /\ x.whole < 60 \/ (x.whole = 60 /\ x.frac = 0) \/ x.neg
    /\ x.whole < 40 \/ (x.whole = 40 /\ x.frac = 0) \/ ~x.neg

C18_EntriesMirrorEmissions ==
    \A i \in Used(device_states) :
        /\ InRange(device_states[i].last_temperature)
        /\ device_states[i].channel \in 1..16
        /\ Key(device_states[i]) \in DOMAIN emitted
        /\ emitted[Key(device_states[i])] = device_states[i].last_temperature

\* a reading of -27.9 was accepted and is the stored and the last emitted
\* temperature of its pair, in a table of three entries or more
C18_Witness ==
    /\ Valid(sent)
    /\ ret = 1
    /\ Tracked(device_states, sent)
    /\ StoredTenths(device_states, sent) = TempBase + 120
    /\ FloatTenths(emitted[<<FrameId(sent), FrameChannel(sent)>>])
       = TempBase + 120
    /\ Cardinality(Used(device_states)) >= 3

\* ------------------------------------------------------------------------
\* C19: the initialized entries fill a prefix of the slots: a new pair
\* goes into the lowest free slot, and an initialized slot stays
\* initialized and keeps its device id and channel
\* ------------------------------------------------------------------------
PrefixUsed ==
    \A i \in Used(device_states) : \A j \in 0..(i - 1) : j \in Used(device_states)

SlotsAreKept ==
    /\ \A i \in Used(device_states) :
           /\ i \in Used(device_states')
           /\ Key(device_states'[i]) = Key(device_states[i])
    /\ \A i \in Used(device_states') \ Used(device_states) :
           /\ \A j \in 0..(i - 1) : j \in Used(device_states)
           /\ Used(device_states') = Used(device_states) \cup {i}
           /\ Key(device_states'[i]) = <<output'[1].id, output'[1].channel>>

C19_EntriesFillPrefix == [] PrefixUsed /\ [][SlotsAreKept]_vars

\* the first two slots were filled by two pairs, starting from no entry
C19_Witness ==
    /\ Used(device_states) = {0, 1}
    /\ Key(device_states[0]) # Key(device_states[1])
    /\ ret = 1
    /\ Key(device_states[1]) = <<output[1].id, output[1].channel>>

\* ------------------------------------------------------------------------
\* C20: decode inverts the caller's bitbuffer in place exactly when the
\* selected row passed the warmup and raw last byte checks and leaves it
\* untouched on NoFrame, BadPreamble and BadTrailer; a second call on a
\* bitbuffer that passed them finds 0x55 for 0xAA in the warmup bytes and
\* ends with BadPreamble, whatever the first call returned
\* ------------------------------------------------------------------------
\* the bitbuffer the caller receives for every frame of WideFrames
WideEncoded == [f \in WideFrames |-> EncodeFrame(f)]

\* the bitbuffer has a 227 bit row, and the first one starts with three
\* bytes 0xAA and has 0x69 in column 27
PassesRaw(buf) ==
    /\ \E r \in 1..Len(buf) : buf[r].bits = 227
    /\ LET b == buf[Min({r \in 1..Len(buf) : buf[r].bits = 227})].bb
       IN  At(b, 0) = 170 /\ At(b, 1) = 170 /\ At(b, 2) = 170
           /\ At(b, 27) = 105

InvertsWhenRawChecksPass ==
    DecodeWideFrame =>
        /\ PassesRaw(WideEncoded[sent'])
           <=> Verdict(ret', log')
                   \notin {"NoMatchingRow", "BadPreamble", "BadTrailer"}
        /\ bitbuffer' = IF PassesRaw(WideEncoded[sent'])
                        THEN bitbuffer_invert(WideEncoded[sent'])
                        ELSE WideEncoded[sent']

SecondCallFailsPreamble ==
    (DecodeSameFrame /\ PassesRaw(WideEncoded[sent])) =>
        /\ bitbuffer = bitbuffer_invert(WideEncoded[sent])
        /\ \E r \in 1..Len(bitbuffer) :
               /\ bitbuffer[r].bits = 227
               /\ At(bitbuffer[r].bb, 0) = 85
        /\ ret' = 0
        /\ log' = <<"BadPreamble">>
        /\ output' = <<>>
        /\ UNCHANGED <<bitbuffer, device_states, device_states_initialized>>

C20_DecodeNotRepeatable ==
    [][InvertsWhenRawChecksPass /\ SecondCallFailsPreamble]_vars

\* the second call on an accepted frame's bitbuffer ended with BadPreamble
C20_Witness ==
    /\ PassesRaw(WideEncoded[sent])
    /\ bitbuffer = bitbuffer_invert(WideEncoded[sent])
    /\ ret = 0
    /\ log = <<"BadPreamble">>
    /\ \E i \in Used(device_states) :
           Key(device_states[i]) = <<FirstRow(sent).id, FirstRow(sent).nib + 1>>

====
